---- MODULE Spec2Model ----
(***************************************************************************)
(* Model of the Google AQI integration:                                    *)
(*  - coordinator.py: the current-conditions coordinator                   *)
(*    (GoogleAQIDataCoordinator) and the forecast coordinator              *)
(*    (GoogleAQIForecastCoordinator), each an asyncio coroutine whose only *)
(*    suspension point is its HTTP round trip;                             *)
(*  - sensor.py: what the sensor entities read from the coordinators;      *)
(*  - config_flow.py and __init__.py: the initial and the options form,    *)
(*    and the setup, unload and reload of the config entry.                *)
(* Specifications:                                                         *)
(*   Spec          both coordinators' scheduled refreshes and the clock    *)
(*   SpecForecast  the forecast refresh over a wide set of bodies          *)
(*   SpecData      the current-conditions refresh over a wide set of bodies*)
(*   SpecPeriod    the period of the forecast request                      *)
(*   SpecEntry     the flows and the lifecycle of the config entry         *)
(***************************************************************************)
EXTENDS Integers, Sequences, FiniteSets, TLC

(***************************************************************************)
(* JSON values as Python sees them after response.json().  Every value is  *)
(* a function with a string domain, so that any two values compare:        *)
(*   None          Python None (JSON null)                                 *)
(*   Atom(s)       a string or a number, opaque                            *)
(*   List(q)       a list, q a sequence of values                          *)
(*   a record      a dict, its keys the fields that are present            *)
(***************************************************************************)
None == [none |-> TRUE]

Atom(s) == [atom |-> s]

List(q) == [list |-> q]

EmptyDict == [k \in {} |-> None]

IsList(v) == "list" \in DOMAIN v

IsDict(v) == DOMAIN v \cap {"none", "atom", "list"} = {}

\* dict.get(k, default) of a value known to be a dict.
Get(d, k, default) == IF k \in DOMAIN d THEN d[k] ELSE default

\* The result of a computation that may raise: exc = "none" when it returned.
Ok(v) == [exc |-> "none", val |-> v]

Raise(e) == [exc |-> e, val |-> None]

(***************************************************************************)
(* GoogleAQIDataCoordinator._async_update_data: the pollutant loop.        *)
(***************************************************************************)
\* Variant that subscripts the record, pollutant["additionalInfo"]: a record
\* without the key raises KeyError.
PollutantEntryRequiringInfo(p) ==
    IF ~IsDict(p) THEN Raise("AttributeError")
    ELSE IF "additionalInfo" \notin DOMAIN p THEN Raise("KeyError")
    ELSE LET concentration == Get(p, "concentration", EmptyDict)
             info == p.additionalInfo
         IN  IF ~IsDict(concentration) \/ ~IsDict(info)
             THEN Raise("AttributeError")
             ELSE Ok([key |-> Get(p, "code", None),
                      entry |-> [value |-> Get(concentration, "value", None),
                                 units |-> Get(concentration, "units", None),
                                 sources |-> Get(info, "sources", None),
                                 effects |-> Get(info, "effects", None)]])

\* One iteration of the loop: the key and the entry stored for pollutant p.
\* x.get(...) on a value that is not a dict raises AttributeError.
PollutantEntry(p) ==
    IF ~IsDict(p) THEN Raise("AttributeError")
    ELSE LET concentration == Get(p, "concentration", EmptyDict)
             info == Get(p, "additionalInfo", EmptyDict)
         IN  IF ~IsDict(concentration) \/ ~IsDict(info)
             THEN Raise("AttributeError")
             ELSE Ok([key |-> Get(p, "code", None),
                      entry |-> [value |-> Get(concentration, "value", None),
                                 units |-> Get(concentration, "units", None),
                                 sources |-> Get(info, "sources", None),
                                 effects |-> Get(info, "effects", None)]])

\* pollutants[code] = {...}: a later record with the same code overwrites.
SetItem(map, key, entry) ==
    [k \in DOMAIN map \cup {key} |-> IF k = key THEN entry ELSE map[k]]

RECURSIVE ParseFrom(_, _, _)
ParseFrom(q, i, acc) ==
    IF i > Len(q) THEN Ok(acc)
    ELSE LET r == PollutantEntry(q[i])
         IN  IF r.exc # "none" THEN Raise(r.exc)
             ELSE ParseFrom(q, i + 1, SetItem(acc, r.val.key, r.val.entry))

\* for pollutant in data.get("pollutants", []): ...   data is a dict here.
\* Iterating None raises TypeError.
ParsePollutants(data) ==
    LET raw == Get(data, "pollutants", List(<<>>))
    IN  IF ~IsList(raw) THEN Raise("TypeError")
        ELSE ParseFrom(raw.list, 1, EmptyDict)

(***************************************************************************)
(* GoogleAQIForecastCoordinator._async_update_data: the forecast loop.     *)
(***************************************************************************)
\* next((idx for idx in indexes if idx.get("code") == "uaqi"), None): the
\* generator stops at the first match, so later elements are never touched.
RECURSIVE FindUaqi(_, _)
FindUaqi(q, i) ==
    IF i > Len(q) THEN Ok(None)
    ELSE IF ~IsDict(q[i]) THEN Raise("AttributeError")
    ELSE IF Get(q[i], "code", None) = Atom("uaqi") THEN Ok(q[i])
    ELSE FindUaqi(q, i + 1)

\* One iteration: the record appended for forecast_entry.
ForecastPoint(forecast_entry) ==
    IF ~IsDict(forecast_entry) THEN Raise("AttributeError")
    ELSE LET raw == Get(forecast_entry, "indexes", List(<<>>))
         IN  IF ~IsList(raw) THEN Raise("TypeError")
             ELSE LET r == FindUaqi(raw.list, 1)
                      uaqi_index == r.val
                  IN  IF r.exc # "none" THEN Raise(r.exc)
                      ELSE Ok([datetime |-> Get(forecast_entry, "dateTime", None),
                               aqi |-> IF uaqi_index # None
                                       THEN Get(uaqi_index, "aqi", None)
                                       ELSE None,
                               dominant_pollutant |->
                                       IF uaqi_index # None
                                       THEN Get(uaqi_index, "dominantPollutant", None)
                                       ELSE None])

\* Variant that skips an hour whose index list has no "uaqi" entry.
RECURSIVE ForecastsFromDropping(_, _, _)
ForecastsFromDropping(q, i, acc) ==
    IF i > Len(q) THEN Ok(acc)
    ELSE LET r == ForecastPoint(q[i])
         IN  IF r.exc # "none" THEN Raise(r.exc)
             ELSE IF r.val.aqi = None /\ r.val.dominant_pollutant = None
             THEN ForecastsFromDropping(q, i + 1, acc)
             ELSE ForecastsFromDropping(q, i + 1, Append(acc, r.val))

RECURSIVE ForecastsFrom(_, _, _)
ForecastsFrom(q, i, acc) ==
    IF i > Len(q) THEN Ok(acc)
    ELSE LET r == ForecastPoint(q[i])
         IN  IF r.exc # "none" THEN Raise(r.exc)
             ELSE ForecastsFrom(q, i + 1, Append(acc, r.val))

\* for forecast_entry in data["hourlyForecasts"]: ...   the key is present.
ParseForecasts(data) ==
    LET raw == data["hourlyForecasts"]
    IN  IF ~IsList(raw) THEN Raise("TypeError")
        ELSE ForecastsFrom(raw.list, 1, <<>>)

(***************************************************************************)
(* HTTP responses.  error is the exception the transport raises ("none"    *)
(* when a response arrives), valid says whether response.json() can decode *)
(* the body, json is the decoded body.                                     *)
(***************************************************************************)
HTTP_OK == 200

Response(error, status, valid, json) ==
    [error |-> error, status |-> status, valid |-> valid, json |-> json]

TransportErrors == {"TimeoutError"}

BadStatuses == {403, 500}

FailureResponses ==
    {Response(e, 0, FALSE, None) : e \in TransportErrors}
    \cup {Response("none", s, v, None) : s \in BadStatuses, v \in BOOLEAN}
    \cup {Response("none", s, TRUE, EmptyDict) : s \in BadStatuses}
    \cup {Response("none", HTTP_OK, FALSE, None)}

(***************************************************************************)
(* GoogleAQIDataCoordinator._async_update_data, from the response on.      *)
(* Every exception raised inside the try block is re-raised as             *)
(* UpdateFailed; cause keeps what was caught.  commit says whether lines   *)
(* 98-99 were reached, pollutants and indexes what they assigned.          *)
(***************************************************************************)
DataFailed(cause) ==
    [result |-> [exc |-> "UpdateFailed", cause |-> cause],
     commit |-> FALSE, pollutants |-> EmptyDict, indexes |-> None]

\* Variant that never looks at response.status.
DataUpdateAnyStatus(resp) ==
    IF resp.error # "none" THEN DataFailed(resp.error)
    ELSE IF ~resp.valid THEN DataFailed("JSONDecodeError")
    ELSE IF ~IsDict(resp.json) THEN DataFailed("AttributeError")
    ELSE LET data == resp.json
             parsed == ParsePollutants(data)
             indexes_ == Get(data, "indexes", List(<<>>))
         IN  IF parsed.exc # "none" THEN DataFailed(parsed.exc)
             ELSE [result |-> IF indexes_ = None
                              THEN [exc |-> "UpdateFailed", cause |-> "TypeError"]
                              ELSE [exc |-> "none", cause |-> "none"],
                   commit |-> TRUE,
                   pollutants |-> parsed.val,
                   indexes |-> indexes_]

DataUpdate(resp) ==
    IF resp.error # "none" THEN DataFailed(resp.error)
    ELSE IF resp.status # HTTP_OK THEN DataFailed("status")
    ELSE IF ~resp.valid THEN DataFailed("JSONDecodeError")
    ELSE IF ~IsDict(resp.json) THEN DataFailed("AttributeError")
    ELSE LET data == resp.json
             parsed == ParsePollutants(data)
             indexes_ == Get(data, "indexes", List(<<>>))
         IN  IF parsed.exc # "none" THEN DataFailed(parsed.exc)
             ELSE [result |-> IF indexes_ = None
                              THEN [exc |-> "UpdateFailed", cause |-> "TypeError"]
                              ELSE [exc |-> "none", cause |-> "none"],
                   commit |-> TRUE,
                   pollutants |-> parsed.val,
                   indexes |-> indexes_]

(***************************************************************************)
(* GoogleAQIForecastCoordinator._async_update_data, from the response on.  *)
(* There is no try block: an exception leaves the coroutine as it is.      *)
(***************************************************************************)
ForecastRaised(exc, cause) ==
    [result |-> [exc |-> exc, cause |-> cause], commit |-> FALSE, forecasts |-> <<>>]

\* not data: None and {} are falsy.
Falsy(v) == v = None \/ v = EmptyDict \/ v = List(<<>>)

ForecastUpdate(resp) ==
    IF resp.error # "none" THEN ForecastRaised(resp.error, resp.error)
    ELSE IF resp.status # HTTP_OK THEN ForecastRaised("UpdateFailed", "status")
    ELSE IF ~resp.valid THEN ForecastRaised("JSONDecodeError", "JSONDecodeError")
    ELSE LET data == resp.json
         IN  IF Falsy(data) \/ "hourlyForecasts" \notin DOMAIN data
             THEN ForecastRaised("UpdateFailed", "invalid")
             ELSE LET parsed == ParseForecasts(data)
                  IN  IF parsed.exc # "none"
                      THEN ForecastRaised(parsed.exc, parsed.exc)
                      ELSE [result |-> [exc |-> "none", cause |-> "none"],
                            commit |-> TRUE,
                            forecasts |-> parsed.val]

(***************************************************************************)
(* The bodies the API answers with in the two-feed specification.          *)
(***************************************************************************)
Pollutant(code) ==
    [code |-> Atom(code),
     concentration |-> [value |-> Atom("12.5"), units |-> Atom("PARTS_PER_BILLION")],
     additionalInfo |-> [sources |-> Atom("traffic"), effects |-> Atom("irritation")]]

Index(code, aqi) ==
    [code |-> Atom(code), displayName |-> Atom(code), aqi |-> Atom(aqi),
     category |-> Atom("Good"), dominantPollutant |-> Atom("pm25")]

DataBodies ==
    { None,
      EmptyDict,
      [pollutants |-> List(<<Pollutant("pm25"), [code |-> Atom("o3")]>>),
       indexes |-> List(<<Index("uaqi", "40")>>)],
      [pollutants |-> List(<<Pollutant("o3")>>),
       indexes |-> List(<<Index("uaqi", "55"), Index("usa_epa", "60")>>)],
      [pollutants |-> List(<<Pollutant("pm25"),
                             [code |-> Atom("o3"), concentration |-> None]>>),
       indexes |-> List(<<Index("uaqi", "40")>>)],
      [indexes |-> List(<<Index("uaqi", "70")>>)],
      [pollutants |-> List(<<Pollutant("no2")>>), indexes |-> None] }

Hourly(dateTime, idxs) == [dateTime |-> Atom(dateTime), indexes |-> List(idxs)]

ForecastBodies ==
    { None,
      EmptyDict,
      [regionCode |-> Atom("us")],
      [hourlyForecasts |-> None],
      [hourlyForecasts |-> List(<<>>)],
      [hourlyForecasts |-> List(<<Hourly("T01", <<Index("uaqi", "40")>>),
                                  Hourly("T02", <<Index("usa_epa", "60")>>)>>)],
      [hourlyForecasts |-> List(<<Hourly("T03", <<Index("usa_epa", "61"),
                                                  Index("uaqi", "55")>>)>>)],
      [hourlyForecasts |-> List(<<[dateTime |-> Atom("T04"), indexes |-> None]>>)] }

DataResponses ==
    FailureResponses \cup {Response("none", HTTP_OK, TRUE, b) : b \in DataBodies}

ForecastResponses ==
    FailureResponses \cup {Response("none", HTTP_OK, TRUE, b) : b \in ForecastBodies}

(***************************************************************************)
(* State.                                                                  *)
(*   now                the wall clock, in hours                           *)
(*   forecast_interval  the configured forecast interval, in hours         *)
(*   pollutants, indexes   GoogleAQIDataCoordinator._pollutants/._indexes  *)
(*   data_task          the current-conditions refresh: NotRun, Pending    *)
(*                      (suspended in session.post) or how the last call   *)
(*                      ended                                              *)
(*   data_reqs          HTTP requests issued by that call                  *)
(*   forecast_data      GoogleAQIForecastCoordinator.forecast_data         *)
(*   fc_now             the forecast call's local `now`, 0 outside a call  *)
(*   fc_task, fc_reqs   as data_task, data_reqs, for the forecast refresh  *)
(* History, for stating properties only:                                   *)
(*   p_from, i_from     the fetch cycle (mod 2) that assigned pollutants   *)
(*                      and indexes                                        *)
(*   data_src, fc_src   the body of the feed's last refresh that returned, *)
(*                      None before any                                    *)
(*   last_forecast_ok   <<T>>, T the time the last forecast refresh        *)
(*                      returned, <<>> before any                          *)
(*   fc_after_failure   the current or last forecast call is the one that  *)
(*                      followed a failed call                             *)
(* The integration around the coordinators:                                *)
(*   update_interval, forecast_length, get_additional_info                 *)
(*                      the other constructor arguments of the coordinators*)
(*   entry              the config entry, [data, options], None before the *)
(*                      initial flow created it                            *)
(*   flow               how the flow answered the last form submission     *)
(*   setup              where the entry's setup stands                     *)
(*   registry           the keys of hass.data[DOMAIN][entry_id]            *)
(*   entities           the sensor entities added by the sensor platform   *)
(*   chosen             history: the settings of the user's last accepted  *)
(*                      submission                                         *)
(*   clock, payload     datetime.now(UTC) of a forecast call, to the       *)
(*                      microsecond, and the period its request asks for   *)
(***************************************************************************)
VARIABLES now, forecast_interval,
          pollutants, indexes, data_task, data_reqs,
          forecast_data, fc_now, fc_task, fc_reqs,
          p_from, i_from, data_src, fc_src, last_forecast_ok, fc_after_failure,
          update_interval, forecast_length, get_additional_info,
          entry, flow, setup, registry, entities, chosen,
          clock, payload

vars == <<now, forecast_interval,
          pollutants, indexes, data_task, data_reqs,
          forecast_data, fc_now, fc_task, fc_reqs,
          p_from, i_from, data_src, fc_src, last_forecast_ok, fc_after_failure,
          update_interval, forecast_length, get_additional_info,
          entry, flow, setup, registry, entities, chosen,
          clock, payload>>

\* What the coordinators' refreshes never touch: the rest of their
\* constructor arguments, the config entry and its lifecycle, and the
\* request-period computation followed on its own.
entry_vars == <<update_interval, forecast_length, get_additional_info,
                entry, flow, setup, registry, entities, chosen>>

period_vars == <<clock, payload>>

rest_vars == <<entry_vars, period_vars>>

data_vars == <<pollutants, indexes, data_task, data_reqs, p_from, i_from, data_src>>

forecast_vars == <<forecast_data, fc_now, fc_task, fc_reqs, fc_src,
                   last_forecast_ok, fc_after_failure>>

MaxTime == 3

MaxInterval == 2

NotRun == [exc |-> "not_run", cause |-> "none"]

Pending == [exc |-> "pending", cause |-> "none"]

Returned == [exc |-> "none", cause |-> "none"]

Skipped == [exc |-> "skipped", cause |-> "none"]

\* The call ended by raising.
Failed(task) == task.exc \notin {"not_run", "pending", "none", "skipped"}

\* The defaults async_setup_entry falls back to.
DefaultUpdateInterval == 1

DefaultForecastInterval == 3

DefaultForecastLength == 24

\* __init__ of both coordinators: empty caches, nothing fetched.
InitCoordinators ==
    /\ now = 0
    /\ pollutants = EmptyDict
    /\ indexes = List(<<>>)
    /\ data_task = NotRun
    /\ data_reqs = 0
    /\ forecast_data = <<>>
    /\ fc_now = 0
    /\ fc_task = NotRun
    /\ fc_reqs = 0
    /\ p_from = 0
    /\ i_from = 0
    /\ data_src = None
    /\ fc_src = None
    /\ last_forecast_ok = <<>>
    /\ fc_after_failure = FALSE

\* No config entry yet, nothing set up.
NoEntry ==
    /\ entry = None
    /\ flow = "none"
    /\ setup = "not_loaded"
    /\ registry = {}
    /\ entities = {}
    /\ chosen = None

\* The two coordinators, constructed with the defaults and followed on
\* their own from here; the entry's flows and lifecycle are followed from
\* InitEntry, the request period from InitPeriod.
Init ==
    /\ InitCoordinators
    /\ forecast_interval \in 1..MaxInterval
    /\ update_interval = DefaultUpdateInterval
    /\ forecast_length = DefaultForecastLength
    /\ get_additional_info = FALSE
    /\ NoEntry
    /\ clock = None
    /\ payload = None

\* Wall-clock time passes.
Tick ==
    /\ now < MaxTime
    /\ now' = now + 1
    /\ UNCHANGED <<forecast_interval, data_vars, forecast_vars, rest_vars>>

\* A current-conditions refresh starts and suspends in session.post.
DataBegin ==
    /\ data_task # Pending
    /\ data_task' = Pending
    /\ data_reqs' = 1
    /\ UNCHANGED <<now, forecast_interval, pollutants, indexes, p_from, i_from,
                   data_src, forecast_vars, rest_vars>>

\* Variant that is suspended between the two assignments.
DataCommitTorn(u) ==
    /\ pollutants' = u.pollutants
    /\ p_from' = 1 - p_from
    /\ UNCHANGED <<indexes, i_from>>

\* self._pollutants = pollutants; self._indexes = indexes: no await between.
DataCommit(u) ==
    /\ pollutants' = u.pollutants
    /\ indexes' = u.indexes
    /\ p_from' = 1 - p_from
    /\ i_from' = 1 - i_from

\* Variant in which the two coordinators keep their result in one shared
\* attribute: a current-conditions commit also replaces the cached forecast.
DataCompleteSharedCache(resp) ==
    /\ data_task = Pending
    /\ LET u == DataUpdate(resp)
       IN  /\ data_task' = u.result
           /\ IF u.commit THEN DataCommit(u) /\ forecast_data' = <<>>
              ELSE UNCHANGED <<pollutants, indexes, p_from, i_from, forecast_data>>
           /\ data_src' = IF u.result = Returned THEN resp.json ELSE data_src
    /\ UNCHANGED <<now, forecast_interval, data_reqs, fc_now, fc_task, fc_reqs, fc_src,
                   last_forecast_ok, fc_after_failure, rest_vars>>

\* Variant that retries once inside the call: after a first failure it
\* posts the request again instead of raising.
DataCompleteRetrying(resp) ==
    /\ data_task = Pending
    /\ LET u == DataUpdate(resp)
       IN  IF Failed(u.result) /\ ~u.commit /\ data_reqs = 1
           THEN /\ data_reqs' = data_reqs + 1
                /\ UNCHANGED <<data_task, pollutants, indexes, p_from, i_from, data_src>>
           ELSE /\ data_task' = u.result
                /\ IF u.commit THEN DataCommit(u)
                   ELSE UNCHANGED <<pollutants, indexes, p_from, i_from>>
                /\ data_src' = IF u.result = Returned THEN resp.json ELSE data_src
                /\ UNCHANGED data_reqs
    /\ UNCHANGED <<now, forecast_interval, forecast_vars, rest_vars>>

\* The response arrives and the coroutine runs to its end: what that does
\* to the coordinator.
DataRefreshEnd(resp) ==
    /\ data_task = Pending
    /\ LET u == DataUpdate(resp)
       IN  /\ data_task' = u.result
           /\ IF u.commit THEN DataCommit(u)
              ELSE UNCHANGED <<pollutants, indexes, p_from, i_from>>
           /\ data_src' = IF u.result = Returned THEN resp.json ELSE data_src
    /\ UNCHANGED data_reqs

\* The end of a scheduled current-conditions refresh.
DataCompleteWith(resp) ==
    /\ DataRefreshEnd(resp)
    /\ UNCHANGED <<now, forecast_interval, forecast_vars, rest_vars>>

DataComplete == \E resp \in DataResponses : DataCompleteWith(resp)

\* Variant with a staleness gate on the last successful fetch: a call made
\* less than forecast_interval hours after it returns without a request.
ForecastBeginGated ==
    /\ fc_task # Pending
    /\ fc_now' = now
    /\ fc_after_failure' = Failed(fc_task)
    /\ IF last_forecast_ok # <<>> /\ now - last_forecast_ok[1] < forecast_interval
       THEN fc_task' = Skipped /\ fc_reqs' = 0
       ELSE fc_task' = Pending /\ fc_reqs' = 1
    /\ UNCHANGED <<now, forecast_interval, forecast_data, fc_src, last_forecast_ok,
                   data_vars, rest_vars>>

\* Variant that backs off after a failure: the call that follows a failed
\* one returns the cached forecast without a request.
ForecastBeginBackoff ==
    /\ fc_task # Pending
    /\ fc_now' = now
    /\ fc_after_failure' = Failed(fc_task)
    /\ IF Failed(fc_task)
       THEN fc_task' = Skipped /\ fc_reqs' = 0
       ELSE fc_task' = Pending /\ fc_reqs' = 1
    /\ UNCHANGED <<now, forecast_interval, forecast_data, fc_src, last_forecast_ok,
                   data_vars, rest_vars>>

\* A forecast refresh starts: now = datetime.now(UTC), then session.post.
\* Nothing is checked before the request is built and sent.
ForecastBegin ==
    /\ fc_task # Pending
    /\ fc_now' = now
    /\ fc_task' = Pending
    /\ fc_reqs' = 1
    /\ fc_after_failure' = Failed(fc_task)
    /\ UNCHANGED <<now, forecast_interval, forecast_data, fc_src, last_forecast_ok,
                   data_vars, rest_vars>>

\* The response arrives and the coroutine runs to its end; its local `now`
\* ends with it: what that does to the coordinator.
ForecastRefreshEnd(resp) ==
    /\ fc_task = Pending
    /\ LET u == ForecastUpdate(resp)
       IN  /\ fc_task' = u.result
           /\ forecast_data' = IF u.commit THEN u.forecasts ELSE forecast_data
           /\ fc_src' = IF u.result = Returned THEN resp.json ELSE fc_src
           /\ last_forecast_ok' = IF u.result = Returned THEN <<now>>
                                  ELSE last_forecast_ok
    /\ fc_now' = 0
    /\ UNCHANGED <<fc_reqs, fc_after_failure>>

\* The end of a scheduled forecast refresh.
ForecastCompleteWith(resp) ==
    /\ ForecastRefreshEnd(resp)
    /\ UNCHANGED <<now, forecast_interval, data_vars, rest_vars>>

ForecastComplete == \E resp \in ForecastResponses : ForecastCompleteWith(resp)

Next ==
    \/ Tick
    \/ DataBegin
    \/ DataComplete
    \/ ForecastBegin
    \/ ForecastComplete

Spec == Init /\ [][Next]_vars

(***************************************************************************)
(* The forecast feed alone, answered from a wider set of well-formed       *)
(* bodies: every list of at most MaxHours hourly entries over WideEntries. *)
(***************************************************************************)
MaxHours == 2

WideEntries ==
    { Hourly("T01", <<Index("uaqi", "40")>>),
      Hourly("T02", <<Index("usa_epa", "60")>>),
      [dateTime |-> Atom("T03")],
      [indexes |-> List(<<Index("usa_epa", "61"), Index("uaqi", "55")>>)],
      Hourly("T05", <<[code |-> Atom("uaqi")]>>),
      Hourly("T06", <<Index("uaqi", "70"), Index("uaqi", "71")>>) }

SeqsUpTo(S, n) == UNION {[1..k -> S] : k \in 0..n}

WideForecastResponses ==
    FailureResponses
    \cup {Response("none", HTTP_OK, TRUE, [hourlyForecasts |-> List(q)]) :
            q \in SeqsUpTo(WideEntries, MaxHours)}

ForecastCompleteWide == \E resp \in WideForecastResponses : ForecastCompleteWith(resp)

NextForecast ==
    \/ ForecastBegin
    \/ ForecastCompleteWide

SpecForecast == Init /\ [][NextForecast]_vars

(***************************************************************************)
(* The current-conditions feed alone, answered from a wider set of         *)
(* well-formed bodies: every list of at most MaxPollutants records over    *)
(* WidePollutants, with a one-entry index list.                            *)
(***************************************************************************)
MaxPollutants == 2

WidePollutants ==
    { Pollutant("pm25"),
      Pollutant("o3"),
      [code |-> Atom("pm25"),
       concentration |-> [value |-> Atom("30.1"), units |-> Atom("MICROGRAMS_PER_CUBIC_METER")]],
      [code |-> Atom("o3")],
      [code |-> Atom("no2"), concentration |-> [value |-> Atom("7")],
       additionalInfo |-> EmptyDict],
      [code |-> Atom("pm10"), additionalInfo |-> [sources |-> Atom("dust")]] }

WideDataResponses ==
    FailureResponses
    \cup {Response("none", HTTP_OK, TRUE,
                   [pollutants |-> List(q), indexes |-> List(<<Index("uaqi", "40")>>)]) :
            q \in SeqsUpTo(WidePollutants, MaxPollutants)}

DataCompleteWide == \E resp \in WideDataResponses : DataCompleteWith(resp)

NextData ==
    \/ DataBegin
    \/ DataCompleteWide

SpecData == Init /\ [][NextData]_vars

(***************************************************************************)
(* The period of the forecast request, as a function of datetime.now(UTC)  *)
(* and the forecast length.  A datetime is its fields, the date as a day   *)
(* number: [day, hour, minute, second, microsecond].                       *)
(***************************************************************************)
HoursPerDay == 24

\* dt + timedelta(hours = h): the hour carries into the date.
AddHours(dt, h) ==
    [dt EXCEPT !.day = dt.day + ((dt.hour + h) \div HoursPerDay),
               !.hour = (dt.hour + h) % HoursPerDay]

\* dt.replace(minute=0, second=0, microsecond=0)
ReplaceToHour(dt) == [dt EXCEPT !.minute = 0, !.second = 0, !.microsecond = 0]

\* Variant that rounds up to an hour boundary and so keeps an instant that
\* lies on one.
NextFullHourCeiling(dt) ==
    IF dt.minute = 0 /\ dt.second = 0 /\ dt.microsecond = 0 THEN dt
    ELSE ReplaceToHour(AddHours(dt, 1))

\* next_full_hour = (now + timedelta(hours=1)).replace(minute=0, ...)
NextFullHour(dt) == ReplaceToHour(AddHours(dt, 1))

\* dt.strftime("%Y-%m-%dT%H:%M:%SZ"): date and time to the second, the
\* microsecond is not printed, a literal Z is appended.
Strftime(dt) ==
    [date |-> dt.day, H |-> dt.hour, M |-> dt.minute, S |-> dt.second, zone |-> "Z"]

\* payload["period"]
Period(dt, length) ==
    LET next_full_hour == NextFullHour(dt)
        end_time == AddHours(next_full_hour, length)
    IN  [startTime |-> Strftime(next_full_hour), endTime |-> Strftime(end_time)]

MaxDay == 1

\* The instants tried for now: on and off an hour, minute and second
\* boundary, at every hour of the day.
Clocks ==
    [day : 0..MaxDay, hour : 0..(HoursPerDay - 1), minute : {0, 15, 59},
     second : {0, 59}, microsecond : {0, 999999}]

MinForecastLength == 1

MaxForecastLength == 96

ForecastLengths ==
    {MinForecastLength, DefaultForecastLength, HoursPerDay + 1, MaxForecastLength}

InitPeriod ==
    /\ InitCoordinators
    /\ forecast_interval = DefaultForecastInterval
    /\ update_interval = DefaultUpdateInterval
    /\ forecast_length \in ForecastLengths
    /\ get_additional_info = FALSE
    /\ NoEntry
    /\ clock \in Clocks
    /\ payload = None

\* Lines 153-169 of the forecast refresh: the period of its request.
RequestPeriod ==
    /\ payload = None
    /\ payload' = Period(clock, forecast_length)
    /\ UNCHANGED <<now, forecast_interval, data_vars, forecast_vars, entry_vars, clock>>

NextPeriod == RequestPeriod

SpecPeriod == InitPeriod /\ [][NextPeriod]_vars

(***************************************************************************)
(* sensor.py: what the sensor entities report, read from the coordinators' *)
(* caches at the moment of the read.  A read returns Ok(value) or raises.  *)
(***************************************************************************)
\* The keys of POLLUTANTS: one pollutant sensor per key.
POLLUTANTS == {"pm25", "pm10", "co", "no2", "so2", "o3"}

\* The codes index sensors are made for in the bodies above.
IndexCodes == {"uaqi", "usa_epa"}

\* GoogleAQIPollutantSensor.native_value
PollutantNativeValue(code) ==
    Ok(Get(Get(pollutants, Atom(code), EmptyDict), "value", None))

\* GoogleAQIPollutantSensor.extra_state_attributes
PollutantAttributes(code) ==
    IF ~get_additional_info THEN Ok(EmptyDict)
    ELSE LET data == Get(pollutants, Atom(code), EmptyDict)
         IN  Ok([sources |-> Get(data, "sources", None),
                 effects |-> Get(data, "effects", None)])

\* for index in self.coordinator.indexes: if index.get("code") == self._code:
\* the first match from position i on, <<>> when there is none.  Iterating
\* None raises TypeError.
RECURSIVE FirstIndex(_, _)
FirstIndex(code, i) ==
    IF ~IsList(indexes) THEN Raise("TypeError")
    ELSE IF i > Len(indexes.list) THEN Ok(<<>>)
    ELSE IF ~IsDict(indexes.list[i]) THEN Raise("AttributeError")
    ELSE IF Get(indexes.list[i], "code", None) = Atom(code)
         THEN Ok(<<indexes.list[i]>>)
         ELSE FirstIndex(code, i + 1)

\* GoogleAQIIndexSensor.native_value
IndexNativeValue(code) ==
    LET found == FirstIndex(code, 1)
    IN  IF found.exc # "none" THEN found
        ELSE IF found.val = <<>> THEN Ok(None)
        ELSE Ok(Get(found.val[1], "aqi", None))

\* GoogleAQIIndexSensor.extra_state_attributes
IndexAttributes(code) ==
    IF ~get_additional_info THEN Ok(EmptyDict)
    ELSE LET found == FirstIndex(code, 1)
         IN  IF found.exc # "none" THEN found
             ELSE IF found.val = <<>> THEN Ok(EmptyDict)
             ELSE Ok([category |-> Get(found.val[1], "category", None),
                      dominant_pollutant |-> Get(found.val[1], "dominantPollutant", None)])

\* GoogleAQIForecastSensor.native_value
ForecastNativeValue ==
    IF forecast_data # <<>> THEN Ok(forecast_data[1].aqi) ELSE Ok(None)

\* GoogleAQIForecastSensor.extra_state_attributes: the records as cached,
\* whatever get_additional_info is.
ForecastAttributes == Ok([forecast |-> forecast_data])

(***************************************************************************)
(* config_flow.py and __init__.py: the flows that write the config entry   *)
(* and the entry's lifecycle.  One entry is followed.  A form's values are *)
(* a record; the voluptuous schema of the form is applied to a submission  *)
(* before the step handler sees it.                                        *)
(***************************************************************************)
MinInterval == 1

MaxIntervalHours == 24

\* What a user may type into an interval or a length field: on, and one
\* off, each bound.
IntervalInputs == {MinInterval - 1, MinInterval, MaxIntervalHours, MaxIntervalHours + 1}

LengthInputs ==
    {MinForecastLength - 1, MinForecastLength, MaxForecastLength, MaxForecastLength + 1}

\* Submissions of the initial form (coordinates left out: they are passed
\* through unchanged).
UserInputs ==
    [api_key : {"key"}, update_interval : IntervalInputs,
     forecast_interval : IntervalInputs, forecast_length : LengthInputs,
     get_additional_info : BOOLEAN]

\* Submissions of the options form: its interval field is named "interval".
OptionsInputs ==
    [interval : IntervalInputs, forecast_interval : IntervalInputs,
     forecast_length : LengthInputs, get_additional_info : BOOLEAN]

\* vol.Range(min=lo, max=hi)
InRange(v, lo, hi) == lo <= v /\ v <= hi

\* Variant of the initial form's schema without the lower bound on the
\* forecast length.
UserSchemaAcceptsAnyLengthBelow(user_input) ==
    /\ InRange(user_input.update_interval, MinInterval, MaxIntervalHours)
    /\ InRange(user_input.forecast_interval, MinInterval, MaxIntervalHours)
    /\ user_input.forecast_length <= MaxForecastLength

\* GoogleAQIConfigFlow._get_form_schema
UserSchemaAccepts(user_input) ==
    /\ InRange(user_input.update_interval, MinInterval, MaxIntervalHours)
    /\ InRange(user_input.forecast_interval, MinInterval, MaxIntervalHours)
    /\ InRange(user_input.forecast_length, MinForecastLength, MaxForecastLength)

\* The schema built in GoogleAQIOptionsFlowHandler.async_step_init
OptionsSchemaAccepts(user_input) ==
    /\ InRange(user_input.interval, MinInterval, MaxIntervalHours)
    /\ InRange(user_input.forecast_interval, MinInterval, MaxIntervalHours)
    /\ InRange(user_input.forecast_length, MinForecastLength, MaxForecastLength)

\* GoogleAQIConfigFlow.async_step_user on a submission: "form" when one of
\* its own checks shows the form again, else "create_entry".
StepUser(user_input) ==
    IF user_input.forecast_length > MaxForecastLength THEN "form"
    ELSE IF user_input.update_interval > MaxIntervalHours
            \/ user_input.update_interval < MinInterval THEN "form"
    ELSE IF user_input.forecast_interval > MaxIntervalHours
            \/ user_input.forecast_interval < MinInterval THEN "form"
    ELSE "create_entry"

\* GoogleAQIOptionsFlowHandler.async_step_init on a submission.
StepInit(user_input) == "create_entry"

InitEntry ==
    /\ InitCoordinators
    /\ forecast_interval = DefaultForecastInterval
    /\ update_interval = DefaultUpdateInterval
    /\ forecast_length = DefaultForecastLength
    /\ get_additional_info = FALSE
    /\ NoEntry
    /\ clock = None
    /\ payload = None

coordinator_vars == <<now, forecast_interval, data_vars, forecast_vars,
                      update_interval, forecast_length, get_additional_info>>

\* The user submits the initial form.  A submission the schema refuses is
\* answered as invalid data and never reaches the step.
SubmitUser(user_input) ==
    /\ entry = None
    /\ LET result == IF ~UserSchemaAccepts(user_input) THEN "invalid_data"
                     ELSE StepUser(user_input)
       IN  /\ flow' = result
           /\ IF result = "create_entry"
              THEN /\ entry' = [data |-> user_input, options |-> EmptyDict]
                   /\ chosen' = [update_interval |-> user_input.update_interval,
                                 forecast_interval |-> user_input.forecast_interval,
                                 forecast_length |-> user_input.forecast_length,
                                 get_additional_info |-> user_input.get_additional_info]
              ELSE UNCHANGED <<entry, chosen>>
    /\ UNCHANGED <<coordinator_vars, setup, registry, entities, period_vars>>

\* The user submits the options form of the loaded entry; an accepted
\* submission becomes entry.options, and update_listener reloads the entry.
SubmitOptions(user_input) ==
    /\ entry # None
    /\ setup = "loaded"
    /\ LET result == IF ~OptionsSchemaAccepts(user_input) THEN "invalid_data"
                     ELSE StepInit(user_input)
       IN  /\ flow' = result
           /\ IF result = "create_entry"
              THEN /\ entry' = [entry EXCEPT !.options = user_input]
                   /\ chosen' = [update_interval |-> user_input.interval,
                                 forecast_interval |-> user_input.forecast_interval,
                                 forecast_length |-> user_input.forecast_length,
                                 get_additional_info |-> user_input.get_additional_info]
                   /\ setup' = "reloading"
              ELSE UNCHANGED <<entry, chosen, setup>>
    /\ UNCHANGED <<coordinator_vars, registry, entities, period_vars>>

\* async_setup_entry up to its first await: entry.options is filled from
\* entry.data when empty, the settings are read with their defaults, both
\* coordinators are constructed, and the first refresh of the
\* current-conditions coordinator posts its request.
SetupEntry ==
    /\ entry # None
    /\ setup \in {"not_loaded", "setup_retry"}
    /\ LET options == IF DOMAIN entry.options = {} THEN entry.data ELSE entry.options
           data == IF DOMAIN options = {} THEN entry.data ELSE options
       IN  /\ entry' = [entry EXCEPT !.options = options]
           /\ update_interval' = Get(data, "update_interval", DefaultUpdateInterval)
           /\ forecast_interval' = Get(data, "forecast_interval", DefaultForecastInterval)
           /\ forecast_length' = Get(data, "forecast_length", DefaultForecastLength)
           /\ get_additional_info' = Get(data, "get_additional_info", FALSE)
    /\ pollutants' = EmptyDict
    /\ indexes' = List(<<>>)
    /\ forecast_data' = <<>>
    /\ data_task' = Pending
    /\ data_reqs' = 1
    /\ fc_task' = NotRun
    /\ fc_reqs' = 0
    /\ fc_now' = 0
    /\ p_from' = 0
    /\ i_from' = 0
    /\ data_src' = None
    /\ fc_src' = None
    /\ last_forecast_ok' = <<>>
    /\ fc_after_failure' = FALSE
    /\ setup' = "first_refresh_aqi"
    /\ UNCHANGED <<now, flow, registry, entities, chosen, period_vars>>

\* await aqi_coordinator.async_config_entry_first_refresh() ends: a failed
\* first refresh raises ConfigEntryNotReady out of async_setup_entry; a
\* returned one lets the forecast coordinator's first refresh post its
\* request.
FirstRefreshAqi(resp) ==
    /\ setup = "first_refresh_aqi"
    /\ DataRefreshEnd(resp)
    /\ IF data_task' = Returned
       THEN /\ setup' = "first_refresh_forecast"
            /\ fc_task' = Pending
            /\ fc_reqs' = 1
            /\ fc_now' = now
            /\ UNCHANGED <<forecast_data, fc_src, last_forecast_ok, fc_after_failure>>
       ELSE /\ setup' = "setup_retry"
            /\ UNCHANGED forecast_vars
    /\ UNCHANGED <<now, forecast_interval, update_interval, forecast_length,
                   get_additional_info, entry, flow, registry, entities, chosen,
                   period_vars>>

\* sensor.py async_setup_entry: one pollutant sensor per key of POLLUTANTS,
\* one index sensor per cached index with a code, one forecast sensor.  An
\* index without a code raises at code.upper() and no entity is added.
SensorEntities(idxs) ==
    IF \E i \in 1..Len(idxs) : "code" \notin DOMAIN idxs[i] \/ idxs[i].code = None
    THEN {}
    ELSE {<<"pollutant", c>> : c \in POLLUTANTS}
         \cup {<<"index", c>> : c \in {k \in IndexCodes :
                                         \E i \in 1..Len(idxs) : idxs[i].code = Atom(k)}}
         \cup {<<"forecast", "forecast">>}

\* await forecast_coordinator.async_config_entry_first_refresh() ends: a
\* failed first refresh raises ConfigEntryNotReady out of async_setup_entry
\* before anything is registered; a returned one lets the setup run to its
\* end: both coordinators are stored in hass.data and the sensor platform
\* adds its entities.
FirstRefreshForecast(resp) ==
    /\ setup = "first_refresh_forecast"
    /\ ForecastRefreshEnd(resp)
    /\ IF fc_task' = Returned
       THEN /\ registry' = {"aqi", "forecast"}
            /\ entities' = SensorEntities(indexes.list)
            /\ setup' = "loaded"
       ELSE /\ setup' = "setup_retry"
            /\ UNCHANGED <<registry, entities>>
    /\ UNCHANGED <<now, forecast_interval, data_vars, update_interval, forecast_length,
                   get_additional_info, entry, flow, chosen, period_vars>>

\* Variant that pops the entry's coordinators whatever the platform unload
\* returned.
UnloadEntryAlwaysPops(unload_ok) ==
    /\ setup \in {"loaded", "reloading"}
    /\ registry' = {}
    /\ IF unload_ok
       THEN entities' = {} /\ setup' = "not_loaded"
       ELSE UNCHANGED entities /\ setup' = "failed_unload"
    /\ UNCHANGED <<coordinator_vars, entry, flow, chosen, period_vars>>

\* async_unload_entry, called to unload the entry or as the first half of a
\* reload: the coordinators are popped only when the platforms unloaded.
UnloadEntry(unload_ok) ==
    /\ setup \in {"loaded", "reloading"}
    /\ IF unload_ok
       THEN /\ registry' = {}
            /\ entities' = {}
            /\ setup' = "not_loaded"
       ELSE /\ setup' = "failed_unload"
            /\ UNCHANGED <<registry, entities>>
    /\ UNCHANGED <<coordinator_vars, entry, flow, chosen, period_vars>>

NextEntry ==
    \/ \E user_input \in UserInputs : SubmitUser(user_input)
    \/ \E user_input \in OptionsInputs : SubmitOptions(user_input)
    \/ SetupEntry
    \/ \E resp \in DataResponses : FirstRefreshAqi(resp)
    \/ \E resp \in ForecastResponses : FirstRefreshForecast(resp)
    \/ \E unload_ok \in BOOLEAN : UnloadEntry(unload_ok)

SpecEntry == InitEntry /\ [][NextEntry]_vars

(***************************************************************************)
(* Properties.                                                             *)
(***************************************************************************)
AllResponses == DataResponses \cup ForecastResponses

C2_Non200KeepsCache ==
    [][\A resp \in AllResponses :
          (resp.error = "none" /\ resp.status # HTTP_OK) =>
             /\ DataCompleteWith(resp) =>
                   /\ Failed(data_task')
                   /\ UNCHANGED <<pollutants, indexes>>
             /\ ForecastCompleteWith(resp) =>
                   /\ Failed(fc_task')
                   /\ UNCHANGED forecast_data]_vars

\* C2 witness: both feeds hold a non-empty view after a non-200 failure.
C2_FailedOnStatusAfterSuccess ==
    /\ data_task = [exc |-> "UpdateFailed", cause |-> "status"]
    /\ pollutants # EmptyDict
    /\ indexes # List(<<>>)
    /\ fc_task = [exc |-> "UpdateFailed", cause |-> "status"]
    /\ forecast_data # <<>>

\* What the claims expect of a body's pollutant list: one entry per code, made
\* from the last record carrying that code; absent or null parts give None.
SubField(p, sub, f) ==
    IF sub \in DOMAIN p /\ f \in DOMAIN p[sub] THEN p[sub][f] ELSE None

ExpectedPollutants(body) ==
    IF body = None \/ "pollutants" \notin DOMAIN body THEN EmptyDict
    ELSE LET q == body.pollutants.list
             CodeOf(i) == Get(q[i], "code", None)
             last(c) == CHOOSE i \in 1..Len(q) :
                           /\ CodeOf(i) = c
                           /\ \A j \in (i + 1)..Len(q) : CodeOf(j) # c
         IN  [c \in {CodeOf(i) : i \in 1..Len(q)} |->
                 [value |-> SubField(q[last(c)], "concentration", "value"),
                  units |-> SubField(q[last(c)], "concentration", "units"),
                  sources |-> SubField(q[last(c)], "additionalInfo", "sources"),
                  effects |-> SubField(q[last(c)], "additionalInfo", "effects")]]

\* C3: in every state the cached pollutant map is exactly the map of the
\* most recent successful fetch, and empty before any: replaced, not merged.
C3_MapOfLastSuccess == pollutants = ExpectedPollutants(data_src)

\* C4: the cached pollutant map and the cached index list always come from
\* the same fetch cycle, in every state a reader can run in.
C4_NoTornSnapshot == p_from = i_from

\* C4 witness: a refresh is in progress after the view has been replaced.
C4_RefreshDuringReads ==
    /\ data_task = Pending
    /\ p_from = 1
    /\ data_src # None

\* What the claims expect of one hourly entry: its dateTime, and the aqi and
\* dominant pollutant of its first index coded "uaqi", None without one.
ExpectedPoint(e) ==
    LET idxs == IF "indexes" \in DOMAIN e THEN e.indexes.list ELSE <<>>
        hits == {j \in 1..Len(idxs) : idxs[j].code = Atom("uaqi")}
        first == CHOOSE j \in hits : \A k \in hits : j <= k
    IN  [datetime |-> IF "dateTime" \in DOMAIN e THEN e.dateTime ELSE None,
         aqi |-> IF hits # {} /\ "aqi" \in DOMAIN idxs[first]
                 THEN idxs[first].aqi ELSE None,
         dominant_pollutant |->
                 IF hits # {} /\ "dominantPollutant" \in DOMAIN idxs[first]
                 THEN idxs[first].dominantPollutant ELSE None]

\* C5: after a forecast refresh that returned on a body of N hourly entries,
\* the cached forecast has N records, record i made from entry i, with None
\* for aqi and dominant pollutant when entry i has no "uaqi" index or no
\* index list; and no well-formed body makes the refresh fail.
C5_OneRecordPerHour ==
    /\ fc_src # None =>
          LET q == fc_src.hourlyForecasts.list
          IN  /\ Len(forecast_data) = Len(q)
              /\ \A i \in 1..Len(q) : forecast_data[i] = ExpectedPoint(q[i])
    /\ Failed(fc_task) => fc_task.cause \in {"status", "TimeoutError", "JSONDecodeError"}

\* C5 witness: two hours cached, one with a universal index and one without.
C5_HourWithoutUaqiKept ==
    /\ fc_task = Returned
    /\ Len(forecast_data) = MaxHours
    /\ \E i \in 1..Len(forecast_data) : forecast_data[i].aqi = None
    /\ \E i \in 1..Len(forecast_data) : forecast_data[i].aqi # None

\* C6: the forecast call that follows a failed one is never skipped: it
\* issues a forecast request again, and so on until a fetch succeeds.
C6_RetryAfterFailure ==
    fc_after_failure => (fc_reqs = 1 /\ fc_task # Skipped)

\* C6 witness: a second failure in a row, each call having sent a request.
C6_FailedTwice ==
    /\ fc_after_failure
    /\ Failed(fc_task)
    /\ fc_reqs = 1

\* C8: no refresh of either feed ends with an exception other than the
\* feed's own UpdateFailed.
C8_OnlyUpdateFailedEscapes ==
    /\ data_task.exc \in {"not_run", "pending", "none", "UpdateFailed"}
    /\ fc_task.exc \in {"not_run", "pending", "none", "UpdateFailed"}

\* The body lacks a collection its feed requires.
LacksPollutantsOrIndexes(body) ==
    ~IsDict(body) \/ "pollutants" \notin DOMAIN body \/ "indexes" \notin DOMAIN body

LacksHourlyForecasts(body) ==
    ~IsDict(body) \/ "hourlyForecasts" \notin DOMAIN body

\* C9: in both feeds a 200 response whose body lacks the required
\* collection ends the refresh as a failed one and leaves the cached view as
\* it was.
C9_MissingCollectionFails ==
    [][\A resp \in AllResponses :
          (resp.error = "none" /\ resp.status = HTTP_OK /\ resp.valid) =>
             /\ (LacksPollutantsOrIndexes(resp.json) /\ DataCompleteWith(resp)) =>
                   /\ Failed(data_task')
                   /\ UNCHANGED <<pollutants, indexes>>
             /\ (LacksHourlyForecasts(resp.json) /\ ForecastCompleteWith(resp)) =>
                   /\ Failed(fc_task')
                   /\ UNCHANGED forecast_data]_vars

\* Every pollutant record of the body is a dict whose optional parts
\* (concentration, additionalInfo and their fields) are present, absent or
\* null.
OptionalPart(p, sub) == sub \in DOMAIN p => (p[sub] = None \/ IsDict(p[sub]))

TolerableBody(body) ==
    /\ IsDict(body)
    /\ {"pollutants", "indexes"} \subseteq DOMAIN body
    /\ IsList(body.pollutants)
    /\ IsList(body.indexes)
    /\ \A i \in 1..Len(body.pollutants.list) :
          LET p == body.pollutants.list[i]
          IN  IsDict(p) /\ OptionalPart(p, "concentration")
                        /\ OptionalPart(p, "additionalInfo")

\* C10: a 200 current-conditions response whose pollutant records lack
\* optional sub-fields (absent or null) still refreshes successfully and
\* caches every pollutant, the missing fields as None.
C10_MissingSubFieldsTolerated ==
    [][\A resp \in DataResponses :
          (resp.error = "none" /\ resp.status = HTTP_OK /\ resp.valid
           /\ TolerableBody(resp.json) /\ DataCompleteWith(resp)) =>
             /\ data_task' = Returned
             /\ pollutants' = ExpectedPollutants(resp.json)]_vars

\* The positions of the body's pollutant records, and the code of each.
RecordCode(body, i) == body.pollutants.list[i].code

DistinctCodes(body) ==
    \A i, j \in 1..Len(body.pollutants.list) :
        RecordCode(body, i) = RecordCode(body, j) => i = j

\* C11: after a current-conditions refresh that returned on a well-formed
\* body, the cached pollutant map is keyed by the records' codes; the entry
\* of a code holds the concentration value and units and the additional-info
\* sources and effects of the (last) record with that code, None for what
\* the record lacks, so None sources and effects without additionalInfo; with
\* distinct codes the map has one entry per record; and no well-formed body
\* makes the refresh fail.
C11_OneEntryPerRecord ==
    /\ data_src # None =>
          LET q == data_src.pollutants.list
          IN  /\ DOMAIN pollutants = {RecordCode(data_src, i) : i \in 1..Len(q)}
              /\ \A i \in 1..Len(q) :
                    (\A j \in (i + 1)..Len(q) : q[j].code # q[i].code) =>
                       LET entry_i == pollutants[q[i].code]
                       IN  /\ entry_i.value = SubField(q[i], "concentration", "value")
                           /\ entry_i.units = SubField(q[i], "concentration", "units")
                           /\ entry_i.sources = SubField(q[i], "additionalInfo", "sources")
                           /\ entry_i.effects = SubField(q[i], "additionalInfo", "effects")
                           /\ "additionalInfo" \notin DOMAIN q[i] =>
                                 (entry_i.sources = None /\ entry_i.effects = None)
              /\ DistinctCodes(data_src) => Cardinality(DOMAIN pollutants) = Len(q)
    /\ Failed(data_task) =>
          data_task.cause \in {"status", "TimeoutError", "JSONDecodeError"}

\* C11 witness: two records cached under their two codes, one of them
\* without additionalInfo and so with None sources and effects.
C11_RecordWithoutAdditionalInfo ==
    /\ data_task = Returned
    /\ Len(data_src.pollutants.list) = MaxPollutants
    /\ DistinctCodes(data_src)
    /\ \E i \in 1..Len(data_src.pollutants.list) :
          /\ "additionalInfo" \notin DOMAIN data_src.pollutants.list[i]
          /\ pollutants[RecordCode(data_src, i)].sources = None
    /\ \E c \in DOMAIN pollutants : pollutants[c].sources # None

\* The second a datetime or a printed time falls in, counted from day 0,
\* 00:00:00.  A printed time T is strictly after a datetime falling in
\* second s exactly when T > s, whatever the datetime's microsecond.
SecondOf(day, hour, minute, second) == ((day * 24 + hour) * 60 + minute) * 60 + second

SecondOfClock(dt) == SecondOf(dt.day, dt.hour, dt.minute, dt.second)

SecondOfPrinted(t) == SecondOf(t.date, t.H, t.M, t.S)

\* C12: the request's startTime is the hour boundary strictly after now
\* and at most one hour after it (so 11:00:00 for 10:15:00 and for 10:00:00
\* alike, the next day's 00:00:00 from 23:xx), printed in UTC, and its
\* endTime is startTime plus forecast_length hours.
C12_PeriodFromNextFullHour ==
    payload # None =>
       LET start == SecondOfPrinted(payload.startTime)
           end == SecondOfPrinted(payload.endTime)
           elapsed == start - SecondOfClock(clock)
       IN  /\ start % 3600 = 0
           /\ elapsed > 0
           /\ elapsed <= 3600
           /\ end = start + forecast_length * 3600
           /\ payload.startTime.zone = "Z"
           /\ payload.endTime.zone = "Z"
           /\ payload.startTime.H \in 0..23
           /\ payload.endTime.H \in 0..23

\* C12 witness: a request built at 23:00:00.000000 sharp, starting at
\* 00:00:00 of the next day.
C12_OnTheHourBeforeMidnight ==
    /\ payload # None
    /\ clock.hour = 23
    /\ clock.minute = 0 /\ clock.second = 0 /\ clock.microsecond = 0
    /\ payload.startTime.date = clock.day + 1
    /\ payload.startTime.H = 0
    /\ forecast_length = MaxForecastLength

\* A step of a feed's refresh, its start or its end (returned or failed), is
\* a step that moves the feed's task.
ForecastRefreshStep == fc_task' # fc_task

DataRefreshStep == data_task' # data_task

\* C13: under every interleaving, a step of the forecast refresh leaves the
\* cached pollutant map and index list, and all else the current-conditions
\* refresh writes, unchanged; a step of the current-conditions refresh
\* leaves the cached forecast, and all else the forecast refresh writes,
\* unchanged.
C13_FeedsWriteDisjointState ==
    [][/\ ForecastRefreshStep => UNCHANGED <<pollutants, indexes, data_vars>>
       /\ DataRefreshStep => UNCHANGED <<forecast_data, forecast_vars>>]_vars

\* C13 witness: the two refreshes interleaved: a current-conditions refresh
\* is in flight over a cached view while the forecast refresh has failed
\* over a cached forecast.
C13_InterleavedRefreshes ==
    /\ data_task = Pending
    /\ pollutants # EmptyDict
    /\ indexes # List(<<>>)
    /\ Failed(fc_task)
    /\ forecast_data # <<>>

\* C17: one call of a feed's refresh issues at most one HTTP request, and
\* exactly one once it has started, whichever feed it is and however it
\* ends: a call that failed has issued one request, not two.
C17_OneRequestPerCall ==
    /\ data_reqs <= 1
    /\ fc_reqs <= 1
    /\ data_task # NotRun => data_reqs = 1
    /\ fc_task # NotRun => fc_reqs = 1
    /\ Failed(data_task) => data_reqs = 1
    /\ Failed(fc_task) => fc_reqs = 1

\* C17 witness: both feeds' calls have failed on a transport error or a bad
\* status, each after its one request.
C17_FailedAfterOneRequest ==
    /\ Failed(data_task)
    /\ data_task.cause \in {"TimeoutError", "status"}
    /\ data_reqs = 1
    /\ Failed(fc_task)
    /\ fc_task.cause \in {"TimeoutError", "status"}
    /\ fc_reqs = 1

\* The fields the additional-info flag is to gate.
AdditionalFields == {"sources", "effects", "category", "dominant_pollutant"}

\* C16: with get_additional_info off, no sensor's attributes carry sources,
\* effects, category or dominant pollutant, the forecast sensor's records
\* included; with it on, a pollutant sensor carries the sources and effects
\* of its cached entry and an index sensor the category and dominant
\* pollutant of its cached record.
C16_AdditionalInfoGated ==
    /\ ~get_additional_info =>
          /\ \A c \in POLLUTANTS :
                DOMAIN PollutantAttributes(c).val \cap AdditionalFields = {}
          /\ \A c \in IndexCodes :
                DOMAIN IndexAttributes(c).val \cap AdditionalFields = {}
          /\ \A i \in 1..Len(ForecastAttributes.val.forecast) :
                DOMAIN ForecastAttributes.val.forecast[i] \cap AdditionalFields = {}
    /\ get_additional_info =>
          /\ \A c \in POLLUTANTS :
                Atom(c) \in DOMAIN pollutants =>
                   PollutantAttributes(c) =
                      Ok([sources |-> pollutants[Atom(c)].sources,
                          effects |-> pollutants[Atom(c)].effects])
          /\ \A c \in IndexCodes : IndexAttributes(c).exc = "none"
          /\ \A c \in IndexCodes :
                \A i \in 1..Len(indexes.list) :
                   (/\ indexes.list[i].code = Atom(c)
                    /\ \A j \in 1..(i - 1) : indexes.list[j].code # Atom(c)) =>
                      IndexAttributes(c) =
                         Ok([category |-> indexes.list[i].category,
                             dominant_pollutant |-> indexes.list[i].dominantPollutant])

\* What an index sensor for code c is to report: the aqi of the first
\* cached index coded c, None when there is none.
ExpectedAqi(c) ==
    LET q == indexes.list
        hits == {j \in 1..Len(q) : Get(q[j], "code", None) = Atom(c)}
        first == CHOOSE j \in hits : \A k \in hits : j <= k
    IN  IF hits = {} THEN None ELSE Get(q[first], "aqi", None)

\* C20: the cached index list is the index list of the last refresh that
\* returned, in the response's order (the empty list before any), and in
\* every state the index sensor of a code reports the aqi of the first
\* cached index with that code, None when no cached index has it.
C20_IndexSensorReadsFirst ==
    /\ IsList(indexes)
    /\ indexes = (IF data_src # None /\ "indexes" \in DOMAIN data_src
                  THEN data_src.indexes ELSE List(<<>>))
    /\ \A c \in IndexCodes : IndexNativeValue(c) = Ok(ExpectedAqi(c))

\* C14: a forecast refresh that failed, the first one made during setup
\* included, leaves a current-conditions coordinator whose own refresh
\* returned registered and with its pollutant sensors added.
C14_ForecastFailureIsolated ==
    (Failed(fc_task) /\ data_task = Returned) =>
       /\ "aqi" \in registry
       /\ \A c \in POLLUTANTS : <<"pollutant", c>> \in entities

\* The interval and length settings of a form's values are within bounds;
\* key is the name the form gives the update interval.
WithinBounds(d, key) ==
    /\ key \in DOMAIN d => InRange(d[key], 1, 24)
    /\ "forecast_interval" \in DOMAIN d => InRange(d.forecast_interval, 1, 24)
    /\ "forecast_length" \in DOMAIN d => InRange(d.forecast_length, 1, 96)

\* C15: the coordinators are never constructed with an update interval or
\* a forecast interval outside 1..24 or a forecast length outside 1..96, and
\* no submission outside these bounds, of the initial or of the options
\* form, is ever taken into the entry: the flow does not answer it with
\* create_entry and the entry's data and options stay within bounds.
C15_OnlyValidatedSettings ==
    /\ InRange(update_interval, 1, 24)
    /\ InRange(forecast_interval, 1, 24)
    /\ InRange(forecast_length, 1, 96)
    /\ entry # None =>
          /\ WithinBounds(entry.data, "update_interval")
          /\ WithinBounds(entry.options, "update_interval")
          /\ WithinBounds(entry.options, "interval")
    /\ entry = None => flow \in {"none", "invalid_data", "form"}

\* C15 witness: the entry is loaded with coordinators constructed on the
\* upper bounds, and an options submission outside the bounds was refused.
C15_RefusedWhileLoadedOnBounds ==
    /\ setup = "loaded"
    /\ flow = "invalid_data"
    /\ update_interval = 24
    /\ forecast_interval = 24
    /\ forecast_length = 96

\* C18: after an unload that succeeded hass.data holds no coordinator of
\* the entry; after one whose platform unload failed it still holds both;
\* a set-up entry has exactly its two coordinators registered; and the
\* coordinators of a setup start with empty caches, which at the end of the
\* setup hold what this setup's first refreshes fetched and nothing else.
C18_RegistryFollowsLifecycle ==
    /\ setup = "not_loaded" => registry = {}
    /\ setup = "failed_unload" => registry = {"aqi", "forecast"}
    /\ setup = "first_refresh_aqi" =>
          /\ registry = {}
          /\ pollutants = EmptyDict
          /\ indexes = List(<<>>)
          /\ forecast_data = <<>>
    /\ setup = "first_refresh_forecast" => (registry = {} /\ forecast_data = <<>>)
    /\ setup \in {"loaded", "reloading"} =>
          /\ registry = {"aqi", "forecast"}
          /\ data_task = Returned
          /\ fc_task = Returned
          /\ pollutants = ExpectedPollutants(data_src)
          /\ indexes = Get(data_src, "indexes", List(<<>>))
          /\ forecast_data = ForecastUpdate(Response("none", HTTP_OK, TRUE, fc_src)).forecasts

\* C18 witness: the entry is loaded again after an options submission
\* reloaded it, so after an unload and a second setup.
C18_LoadedAfterReload ==
    /\ setup = "loaded"
    /\ "interval" \in DOMAIN entry.options
    /\ registry = {"aqi", "forecast"}
    /\ pollutants # EmptyDict

\* The coordinators are those of a run of async_setup_entry that followed
\* the user's last accepted submission (an options submission awaiting its
\* reload, or whose reload failed to unload, is not yet in effect).
Constructed ==
    setup \in {"first_refresh_aqi", "first_refresh_forecast", "loaded", "setup_retry"}

\* C19: the coordinators are constructed with the settings of the user's
\* last accepted submission, initial or options form: update interval,
\* forecast interval, forecast length and the additional-info flag.
C19_ConstructedAsChosen ==
    Constructed =>
       /\ update_interval = chosen.update_interval
       /\ forecast_interval = chosen.forecast_interval
       /\ forecast_length = chosen.forecast_length
       /\ get_additional_info = chosen.get_additional_info

====
